---- MODULE Spec2Model ----
(***************************************************************************)
(* Daylight-coefficient calculation of solar_model                         *)
(* (src/src/daylight_coefficients.rs): calc_dc and DCFactory::trace_ray.   *)
(*                                                                         *)
(* Floats are fixed-point integers in units of 1/Scale; every product and  *)
(* quotient truncates, in the order in which the source evaluates it.      *)
(* The worker threads of the parallel build each run one first-bounce      *)
(* closure at a time; the recursion of trace_ray is the thread's stack of  *)
(* frames.  The collaborators that are not part of this file (the scene,   *)
(* the materials, the samplers, the random source) answer by a             *)
(* nondeterministic choice out of a small set of values.  The direction of *)
(* a ray is read only by cast_ray and dir_to_bin, so it is drawn when the  *)
(* ray is cast.                                                            *)
(***************************************************************************)
EXTENDS Integers, Sequences, FiniteSets

\* ------------------------------------------------------------ bounds
NumRays == 2
NBins == 2
NAmbientSamples == 2
MaxDepthBound == 1
NThreads == 2

\* ------------------------------------------------------------ numbers
Scale == 1000
PI == 3141

Bins == 0 .. (NBins - 1)
Threads == 1 .. NThreads

FREE == 0
MAIN == NThreads + 1

\* the values the collaborators may return: directions (one more than there
\* are bins, so that two of them share a bin), cos_theta at grazing and at
\* normal incidence, roulette draws below and above the acceptance ratios that
\* occur, and a wall (material 2) and a lamp (material 1).  limit_weight is
\* zero, small (0.01, the resolution does not reach the default 1e-5) or large
\* enough to clamp wt (3.0).
Directions == 0 .. NBins
CosThetas == {1, 1000}
QDraws == {300, 800}
LimitWeights == {0, 10, 3000}
Sides == {"Front", "Back", "NonApplicable"}
Materials ==
    << [emits |-> TRUE, red |-> 1000],
       [emits |-> FALSE, red |-> 1000] >>
Objects ==
    << [front_material_index |-> 1, back_material_index |-> 1],
       [front_material_index |-> 2, back_material_index |-> 2] >>

VARIABLES
    rays_len,       \* rays.len(), the number of sensor rays handed to calc_dc
    factory,        \* the DCFactory: max_depth, n_ambient_samples, limit_weight
    spectrum,       \* spectrum[i][b]: the Vec<Float> behind sensor i's mutex
    spectrum_lock,  \* holder of sensor i's spectrum mutex, FREE if none
    counter,        \* counter[i]: the value behind sensor i's counter mutex
    counter_lock,   \* holder of sensor i's counter mutex, FREE if none
    started,        \* started[i]: first-bounce samples of sensor i handed out
    tsensor,        \* tsensor[t]: the sensor whose closure thread t runs
    tpc,            \* tpc[t]: "idle", "trace", "count", "report"
    stack,          \* stack[t]: the trace_ray frames of thread t
    tmp,            \* tmp[t]: the bin value loaded by s[bin_n] += ...
    main_pc,        \* calc_dc: "map", "lock", "set", "done"
    row, col,       \* sensor_index and patch_index of the write-out loop
    ret,            \* the Matrix
    nwrites,        \* history: the number of ret.set calls per cell
    deposited       \* history: the sum of the deposits per sensor and bin

vars == << rays_len, factory, spectrum, spectrum_lock, counter, counter_lock, started,
           tsensor, tpc, stack, tmp, main_pc, row, col, ret, nwrites, deposited >>

Sensors == 0 .. (rays_len - 1)

\* the inputs of calc_dc: up to NumRays sensors whose rays are not reflected, or
\* one sensor whose rays are reflected up to MaxDepthBound times
Inputs ==
    { in \in [rays_len : 0 .. NumRays, max_depth : 0 .. MaxDepthBound] :
         in.rays_len <= 1 \/ in.max_depth = 0 }

\* ------------------------------------------------------------ arithmetic
Mul(a, b) == (a * b) \div Scale
Div(a, b) == (a * Scale) \div b
Max(a, b) == IF a >= b THEN a ELSE b

\* round(sqrt(x) + h/2), rounding half away from zero, of a fixed-point
\* x >= 0: the largest k with k - 1/2 <= sqrt(x) + h/2
RoundFits(x, h, k) ==
    \/ 2 * k - 1 - h <= 0
    \/ (2 * k - 1 - h) * (2 * k - 1 - h) * Scale <= 4 * x
RECURSIVE RoundSqrtFrom(_, _, _)
RoundSqrtFrom(x, h, k) ==
    IF RoundFits(x, h, k + 1) THEN RoundSqrtFrom(x, h, k + 1) ELSE k
RoundSqrtPlusHalves(x, h) == RoundSqrtFrom(x, h, 0)

\* ------------------------------------------------------------ collaborators
dir_to_bin(dir) == dir % NBins
emits_direct_light(m) == Materials[m].emits
colour_red(m) == Materials[m].red

\* ------------------------------------------------------------ trace_ray
Frame(depth, value, denom) ==
    [ current_depth |-> depth, current_value |-> value, denom_samples |-> denom,
      pc |-> "enter", material |-> 0, n |-> 0, i |-> 0,
      new_value |-> 0, q |-> -1, direction |-> -1 ]

PastMaxDepthOffByOne(depth, max_depth) == depth > max_depth + 1
PastMaxDepth(depth, max_depth) == depth > max_depth

\* 0.8 * current_value * current_value * one_over_samples / limit_weight
LimitD(current_value, ns, limit_weight) ==
    Div(Mul(Mul(Mul(800, current_value), current_value), Div(Scale, ns * Scale)),
        limit_weight)

\* a zero limit_weight makes d infinite or NaN, and `wt > d` false
ClampedWeight(current_value, ns, limit_weight) ==
    IF limit_weight > 0 /\ current_value > LimitD(current_value, ns, limit_weight)
    THEN LimitD(current_value, ns, limit_weight)
    ELSE current_value

BranchCount(current_value, ns, limit_weight) ==
    Max(1, RoundSqrtPlusHalves(ns * ClampedWeight(current_value, ns, limit_weight), 1))

NewValue(current_value, cos_theta, refl) ==
    (Mul(Mul(current_value, cos_theta), refl) * 3) \div 2

Roulette(new_value, limit_weight) == limit_weight > 0 /\ new_value < limit_weight
Rejected(q, new_value, limit_weight) == q > Div(new_value, limit_weight)

NextDenomUnbranched(denom_samples, n) == denom_samples
NextDenom(denom_samples, n) == denom_samples * n

\* li * current_value / denom_samples as Float, li = 1
ContributionUnnormalised(current_value, denom_samples) == current_value
Contribution(current_value, denom_samples) == current_value \div denom_samples

MaterialOf(object, side) ==
    IF side = "Front" THEN Objects[object].front_material_index
    ELSE Objects[object].back_material_index

Top(t) == stack[t][Len(stack[t])]
WithTop(t, f) == [stack EXCEPT ![t] = [@ EXCEPT ![Len(@)] = f]]
Tracing(t) == tpc[t] = "trace" /\ Len(stack[t]) > 0

\* the return of a trace_ray call: back in the caller's loop, or in the
\* first-bounce closure of calc_dc, which goes on to the progress counter
Return(t) ==
    /\ LET callers == SubSeq(stack[t], 1, Len(stack[t]) - 1)
       IN  stack' = [stack EXCEPT ![t] =
              IF callers = << >> THEN callers
              ELSE [callers EXCEPT ![Len(callers)] =
                       [@ EXCEPT !.pc = "loop", !.i = @ + 1, !.new_value = 0]]]
    /\ tpc' = [tpc EXCEPT ![t] = IF Len(stack[t]) = 1 THEN "count" ELSE @]

\* Mutex::lock returns once no guard of the mutex is alive; dropping the guard
\* frees the mutex
CanLockAlways(holder) == TRUE
CanLock(holder) == holder = FREE
StillLocked(lock, i) == lock
Unlocked(lock, i) == [lock EXCEPT ![i] = FREE]

\* the first-bounce call trace_ray(scene, &new_ray, 0, PI, n_ambient_samples, ..)
FirstBounceUnnormalised(ns) == Frame(0, PI, 1)
FirstBounce(ns) == Frame(0, PI, ns)

AllSamplesStarted == \A i \in Sensors : started[i] = factory.n_ambient_samples
AllSamplesDone ==
    /\ \A i \in Sensors : started[i] = factory.n_ambient_samples
    /\ \A t \in Threads : tpc[t] = "idle"

\* ------------------------------------------------------------ initial state
Init ==
    /\ \E in \in Inputs, lw \in LimitWeights :
          /\ rays_len = in.rays_len
          /\ factory = [ max_depth |-> in.max_depth,
                         n_ambient_samples |-> NAmbientSamples,
                         limit_weight |-> lw ]
    /\ spectrum = [i \in Sensors |-> [b \in Bins |-> 0]]
    /\ spectrum_lock = [i \in Sensors |-> FREE]
    /\ counter = [i \in Sensors |-> 0]
    /\ counter_lock = [i \in Sensors |-> FREE]
    /\ started = [i \in Sensors |-> 0]
    /\ tsensor = [t \in Threads |-> 0]
    /\ tpc = [t \in Threads |-> "idle"]
    /\ stack = [t \in Threads |-> << >>]
    /\ tmp = [t \in Threads |-> 0]
    /\ main_pc = "map"
    /\ row = 0
    /\ col = 0
    /\ ret = [i \in Sensors |-> [b \in Bins |-> 0]]
    /\ nwrites = [i \in Sensors |-> [b \in Bins |-> 0]]
    /\ deposited = [i \in Sensors |-> [b \in Bins |-> 0]]

\* ------------------------------------------------------------ calc_dc, workers
\* a worker takes the next first-bounce direction of sensor i and calls
\* trace_ray(scene, &new_ray, 0, PI, n_ambient_samples, spectrum)
StartSample(t, i) ==
    /\ main_pc = "map"
    /\ tpc[t] = "idle"
    /\ started[i] < factory.n_ambient_samples
    /\ started' = [started EXCEPT ![i] = @ + 1]
    /\ tsensor' = [tsensor EXCEPT ![t] = i]
    /\ tpc' = [tpc EXCEPT ![t] = "trace"]
    /\ stack' = [stack EXCEPT ![t] = << FirstBounce(factory.n_ambient_samples) >>]
    /\ UNCHANGED << rays_len, factory, spectrum, spectrum_lock, counter, counter_lock, tmp,
                    main_pc, row, col, ret, nwrites, deposited >>

\* if current_depth > self.max_depth { return }
DepthCutoff(t) ==
    /\ Tracing(t)
    /\ Top(t).pc = "enter"
    /\ PastMaxDepth(Top(t).current_depth, factory.max_depth)
    /\ Return(t)
    /\ UNCHANGED << rays_len, factory, spectrum, spectrum_lock, counter, counter_lock, started,
                    tsensor, tmp, main_pc, row, col, ret, nwrites, deposited >>

HitFrameReflectsAll(f, object, side) ==
    IF side = "NonApplicable"
    THEN [f EXCEPT !.pc = "nonapplicable"]
    ELSE [f EXCEPT !.pc = "loop", !.material = MaterialOf(object, side),
                   !.n = BranchCount(f.current_value, factory.n_ambient_samples,
                                     factory.limit_weight),
                   !.i = 0]

\* the frame after scene.cast_ray(ray) returned a surface interaction
HitFrame(f, object, side) ==
    IF side = "NonApplicable"
    THEN [f EXCEPT !.pc = "nonapplicable"]
    ELSE IF emits_direct_light(MaterialOf(object, side))
    THEN [f EXCEPT !.pc = "emissive", !.material = MaterialOf(object, side)]
    ELSE [f EXCEPT !.pc = "loop", !.material = MaterialOf(object, side),
                   !.n = BranchCount(f.current_value, factory.n_ambient_samples,
                                     factory.limit_weight),
                   !.i = 0]

CastHit(t) ==
    /\ Tracing(t)
    /\ Top(t).pc = "enter"
    /\ ~ PastMaxDepth(Top(t).current_depth, factory.max_depth)
    /\ \E object \in DOMAIN Objects, side \in Sides :
          stack' = WithTop(t, HitFrame(Top(t), object, side))
    /\ UNCHANGED << rays_len, factory, spectrum, spectrum_lock, counter, counter_lock, started,
                    tsensor, tpc, tmp, main_pc, row, col, ret, nwrites, deposited >>

\* cast_ray returned None for a ray of direction dir
CastMiss(t) ==
    /\ Tracing(t)
    /\ Top(t).pc = "enter"
    /\ ~ PastMaxDepth(Top(t).current_depth, factory.max_depth)
    /\ \E dir \in Directions :
          stack' = WithTop(t, [Top(t) EXCEPT !.pc = "miss", !.direction = dir])
    /\ UNCHANGED << rays_len, factory, spectrum, spectrum_lock, counter, counter_lock, started,
                    tsensor, tpc, tmp, main_pc, row, col, ret, nwrites, deposited >>

\* SurfaceSide::NonApplicable => return, and an emitting material skips the loop
ReturnNoContribution(t) ==
    /\ Tracing(t)
    /\ Top(t).pc \in {"nonapplicable", "emissive"}
    /\ Return(t)
    /\ UNCHANGED << rays_len, factory, spectrum, spectrum_lock, counter, counter_lock, started,
                    tsensor, tmp, main_pc, row, col, ret, nwrites, deposited >>

\* one pass of (0..n).for_each with new_value below limit_weight: q is drawn
RouletteSample(t) ==
    /\ Tracing(t)
    /\ Top(t).pc = "loop"
    /\ Top(t).i < Top(t).n
    /\ \E cos_theta \in CosThetas, q \in QDraws :
          LET f == Top(t)
              nv == NewValue(f.current_value, cos_theta, colour_red(f.material))
          IN  /\ Roulette(nv, factory.limit_weight)
              /\ stack' = WithTop(t, [f EXCEPT !.pc = "roulette", !.new_value = nv, !.q = q])
    /\ UNCHANGED << rays_len, factory, spectrum, spectrum_lock, counter, counter_lock, started,
                    tsensor, tpc, tmp, main_pc, row, col, ret, nwrites, deposited >>

\* if q > new_value / self.limit_weight { return }, and otherwise the end of
\* the `if` block: either way this pass of the closure ends here
RouletteDecide(t) ==
    /\ Tracing(t)
    /\ Top(t).pc = "roulette"
    /\ LET f == Top(t)
           next == [f EXCEPT !.pc = "loop", !.i = @ + 1, !.new_value = 0, !.q = -1]
       IN  IF Rejected(f.q, f.new_value, factory.limit_weight)
           THEN stack' = WithTop(t, next)
           ELSE stack' = WithTop(t, next)
    /\ UNCHANGED << rays_len, factory, spectrum, spectrum_lock, counter, counter_lock, started,
                    tsensor, tpc, tmp, main_pc, row, col, ret, nwrites, deposited >>

\* one pass with new_value not below limit_weight:
\* self.trace_ray(scene, &new_ray, current_depth + 1, new_value, denom_samples * n, ..)
RecurseSample(t) ==
    /\ Tracing(t)
    /\ Top(t).pc = "loop"
    /\ Top(t).i < Top(t).n
    /\ \E cos_theta \in CosThetas :
          LET f == Top(t)
              nv == NewValue(f.current_value, cos_theta, colour_red(f.material))
          IN  /\ ~ Roulette(nv, factory.limit_weight)
              /\ stack' = [stack EXCEPT ![t] =
                    Append([@ EXCEPT ![Len(@)] = [f EXCEPT !.pc = "call", !.new_value = nv]],
                           Frame(f.current_depth + 1, nv, NextDenom(f.denom_samples, f.n)))]
    /\ UNCHANGED << rays_len, factory, spectrum, spectrum_lock, counter, counter_lock, started,
                    tsensor, tpc, tmp, main_pc, row, col, ret, nwrites, deposited >>

\* the for_each is exhausted
LoopDone(t) ==
    /\ Tracing(t)
    /\ Top(t).pc = "loop"
    /\ Top(t).i = Top(t).n
    /\ Return(t)
    /\ UNCHANGED << rays_len, factory, spectrum, spectrum_lock, counter, counter_lock, started,
                    tsensor, tmp, main_pc, row, col, ret, nwrites, deposited >>

\* bin_n = self.reinhart.dir_to_bin(ray.geometry.direction),
\* let mut s = spectrum.lock().unwrap(), and the load of s[bin_n]
LockSpectrum(t) ==
    /\ Tracing(t)
    /\ Top(t).pc = "miss"
    /\ CanLock(spectrum_lock[tsensor[t]])
    /\ spectrum_lock' = [spectrum_lock EXCEPT ![tsensor[t]] = t]
    /\ tmp' = [tmp EXCEPT ![t] = spectrum[tsensor[t]][dir_to_bin(Top(t).direction)]]
    /\ stack' = WithTop(t, [Top(t) EXCEPT !.pc = "add"])
    /\ UNCHANGED << rays_len, factory, spectrum, counter, counter_lock, started, tsensor, tpc,
                    main_pc, row, col, ret, nwrites, deposited >>

\* the store of s[bin_n] += li * current_value / denom_samples, the drop of the
\* guard and the return
AddAndUnlock(t) ==
    /\ Tracing(t)
    /\ Top(t).pc = "add"
    /\ LET f == Top(t)
           bin_n == dir_to_bin(f.direction)
           amount == Contribution(f.current_value, f.denom_samples)
       IN  /\ spectrum' = [spectrum EXCEPT ![tsensor[t]][bin_n] = tmp[t] + amount]
           /\ deposited' = [deposited EXCEPT ![tsensor[t]][bin_n] = @ + amount]
    /\ spectrum_lock' = Unlocked(spectrum_lock, tsensor[t])
    /\ tmp' = [tmp EXCEPT ![t] = 0]
    /\ Return(t)
    /\ UNCHANGED << rays_len, factory, counter, counter_lock, started, tsensor,
                    main_pc, row, col, ret, nwrites >>

\* let mut c = counter.lock().unwrap(); *c += 1
CountSample(t) ==
    /\ tpc[t] = "count"
    /\ CanLock(counter_lock[tsensor[t]])
    /\ counter_lock' = [counter_lock EXCEPT ![tsensor[t]] = t]
    /\ counter' = [counter EXCEPT ![tsensor[t]] = @ + 1]
    /\ tpc' = [tpc EXCEPT ![t] = "report"]
    /\ UNCHANGED << rays_len, factory, spectrum, spectrum_lock, started, tsensor, stack, tmp,
                    main_pc, row, col, ret, nwrites, deposited >>

\* eprintln!, then the closure ends and drops the counter guard
ReportDone(t) ==
    /\ tpc[t] = "report"
    /\ counter_lock' = Unlocked(counter_lock, tsensor[t])
    /\ tpc' = [tpc EXCEPT ![t] = "idle"]
    /\ tsensor' = [tsensor EXCEPT ![t] = 0]
    /\ UNCHANGED << rays_len, factory, spectrum, spectrum_lock, counter, started, stack,
                    tmp, main_pc, row, col, ret, nwrites, deposited >>

\* ------------------------------------------------------------ calc_dc, write-out
\* collect() returns once every closure of every sensor has ended
Join ==
    /\ main_pc = "map"
    /\ AllSamplesDone
    /\ main_pc' = IF rays_len = 0 THEN "done" ELSE "lock"
    /\ row' = 0
    /\ col' = 0
    /\ UNCHANGED << rays_len, factory, spectrum, spectrum_lock, counter, counter_lock, started,
                    tsensor, tpc, stack, tmp, ret, nwrites, deposited >>

\* let s = &*spectrum.lock().unwrap()
LockRow ==
    /\ main_pc = "lock"
    /\ CanLock(spectrum_lock[row])
    /\ spectrum_lock' = [spectrum_lock EXCEPT ![row] = MAIN]
    /\ col' = 0
    /\ main_pc' = "set"
    /\ UNCHANGED << rays_len, factory, spectrum, counter, counter_lock, started, tsensor, tpc,
                    stack, tmp, row, ret, nwrites, deposited >>

\* ret.set(sensor_index, patch_index, *v)
SetCell ==
    /\ main_pc = "set"
    /\ col < NBins
    /\ ret' = [ret EXCEPT ![row][col] = spectrum[row][col]]
    /\ nwrites' = [nwrites EXCEPT ![row][col] = @ + 1]
    /\ col' = col + 1
    /\ UNCHANGED << rays_len, factory, spectrum, spectrum_lock, counter, counter_lock, started,
                    tsensor, tpc, stack, tmp, main_pc, row, deposited >>

\* the end of one pass of the write-out loop drops the guard
UnlockRow ==
    /\ main_pc = "set"
    /\ col = NBins
    /\ spectrum_lock' = Unlocked(spectrum_lock, row)
    /\ row' = row + 1
    /\ main_pc' = IF row + 1 = rays_len THEN "done" ELSE "lock"
    /\ UNCHANGED << rays_len, factory, spectrum, counter, counter_lock, started, tsensor, tpc,
                    stack, tmp, col, ret, nwrites, deposited >>

Worker(t) ==
    \/ \E i \in Sensors : StartSample(t, i)
    \/ DepthCutoff(t)
    \/ CastHit(t)
    \/ CastMiss(t)
    \/ ReturnNoContribution(t)
    \/ RouletteSample(t)
    \/ RouletteDecide(t)
    \/ RecurseSample(t)
    \/ LoopDone(t)
    \/ LockSpectrum(t)
    \/ AddAndUnlock(t)
    \/ CountSample(t)
    \/ ReportDone(t)

Main == Join \/ LockRow \/ SetCell \/ UnlockRow

Next == (\E t \in Threads : Worker(t)) \/ Main

Spec == Init /\ [][Next]_vars

FairSpec == Spec /\ (\A t \in Threads : WF_vars(Worker(t))) /\ WF_vars(Main)

\* ------------------------------------------------------------ properties
Min(a, b) == IF a <= b THEN a ELSE b
RECURSIVE SumUpTo(_, _)
SumUpTo(f, b) == IF b < 0 THEN 0 ELSE f[b] + SumUpTo(f, b - 1)
RowSum(f) == SumUpTo(f, NBins - 1)
RECURSIVE Pow(_, _)
Pow(a, k) == IF k = 0 THEN 1 ELSE a * Pow(a, k - 1)
RECURSIVE BranchProduct(_, _)
BranchProduct(frames, k) == IF k = 0 THEN 1 ELSE frames[k].n * BranchProduct(frames, k - 1)

Steps(t) == stack'[t] # stack[t]
Caller(t) == stack[t][Len(stack[t]) - 1]
Below(new_value) == factory.limit_weight > 0 /\ new_value < factory.limit_weight

\* the frame a call with depth + 1, new_value and denom_samples * n starts with
CallFrame(f, new_value) ==
    Frame(f.current_depth + 1, new_value, f.denom_samples * f.n)

\* the caller's frame once its callee has returned
Resumed(f) == [f EXCEPT !.pc = "loop", !.i = @ + 1, !.new_value = 0]
Returned(t) ==
    stack'[t] = IF Len(stack[t]) = 1 THEN << >>
                ELSE SubSeq(stack[t], 1, Len(stack[t]) - 2) \o << Resumed(Caller(t)) >>

\* C1: a trace_ray call within max_depth whose ray misses the scene adds
\* current_value / denom_samples to bin dir_to_bin(direction) of its sensor's
\* spectrum, changes no other bin of any spectrum, and returns without a
\* recursive call.
C1_MissDeposit ==
    [][\A t \in Threads :
          /\ (Tracing(t) /\ Top(t).pc = "miss" /\ Steps(t)) =>
                /\ Top(t).current_depth <= factory.max_depth
                /\ spectrum' = spectrum
                /\ stack' = WithTop(t, [Top(t) EXCEPT !.pc = "add"])
          /\ (Tracing(t) /\ Top(t).pc = "add" /\ Steps(t)) =>
                /\ spectrum' = [spectrum EXCEPT
                      ![tsensor[t]][Top(t).direction % NBins] =
                          @ + (Top(t).current_value \div Top(t).denom_samples)]
                /\ Returned(t)]_vars

C1_Witness ==
    \E i \in Sensors, b \in Bins :
       /\ spectrum[i][b] = PI \div NAmbientSamples
       /\ \A c \in Bins \ {b} : spectrum[i][c] = 0

\* C2: a sub-sample with limit_weight > 0 and new_value < limit_weight draws q;
\* when q <= new_value / limit_weight it calls trace_ray with current_depth + 1
\* and the un-boosted new_value, and when q > new_value / limit_weight it ends
\* with no call and no contribution.
C2_RouletteContinues ==
    [][\A t \in Threads :
          (Tracing(t) /\ Top(t).pc = "roulette" /\ Steps(t)) =>
             IF Top(t).q * factory.limit_weight <= Top(t).new_value * Scale
             THEN stack'[t] = Append(SubSeq(stack[t], 1, Len(stack[t]) - 1)
                                        \o << [Top(t) EXCEPT !.pc = "call"] >>,
                                     CallFrame(Top(t), Top(t).new_value))
             ELSE /\ stack'[t] = SubSeq(stack[t], 1, Len(stack[t]) - 1)
                                    \o << Resumed(Top(t)) >>
                  /\ spectrum' = spectrum]_vars

\* C3: a trace_ray call with current_depth > max_depth returns at once: it
\* never queries the scene, recurses or writes the spectrum; every deposit
\* comes from a call with current_depth <= max_depth, and with max_depth = 0
\* only from a first-bounce ray that missed the scene.
C3_DepthCutoff ==
    /\ [](\A t \in Threads : \A k \in 1 .. Len(stack[t]) :
             stack[t][k].current_depth > factory.max_depth =>
                k = Len(stack[t]) /\ stack[t][k] =
                   Frame(stack[t][k].current_depth, stack[t][k].current_value,
                         stack[t][k].denom_samples))
    /\ [][/\ \A t \in Threads :
                (Tracing(t) /\ Top(t).current_depth > factory.max_depth /\ Steps(t)) =>
                   Returned(t) /\ spectrum' = spectrum
          /\ spectrum' # spectrum =>
                \E t \in Threads :
                   /\ Tracing(t) /\ Steps(t)
                   /\ Top(t).pc = "add"
                   /\ Top(t).current_depth <= factory.max_depth
                   /\ factory.max_depth = 0 => Len(stack[t]) = 1]_vars

C3_Witness ==
    \E t \in Threads :
       /\ Tracing(t)
       /\ Top(t).current_depth > factory.max_depth
       /\ factory.max_depth = 0
       /\ Caller(t).material # 0

\* C4: the matrix has rays.len() rows and n_bins columns and starts at zero;
\* every cell (i, j) is written once, with bin j of sensor i's spectrum, and
\* only when every first-bounce sample of sensor i has ended.
C4_MatrixWrittenOnce ==
    /\ DOMAIN ret = 0 .. (rays_len - 1)
    /\ \A i \in Sensors :
          /\ DOMAIN ret[i] = 0 .. (NBins - 1)
          /\ \A j \in Bins :
                /\ nwrites[i][j] <= 1
                /\ nwrites[i][j] = 0 => ret[i][j] = 0
                /\ nwrites[i][j] = 1 =>
                      /\ ret[i][j] = spectrum[i][j]
                      /\ counter[i] = factory.n_ambient_samples
                      /\ \A t \in Threads : tpc[t] = "idle"
                /\ main_pc = "done" => nwrites[i][j] = 1

C4_Witness ==
    /\ main_pc = "done"
    /\ rays_len = NumRays
    /\ \A i \in Sensors : \E j \in Bins : ret[i][j] > 0

\* C5 as claimed: every spectrum bin is >= 0 at every point of a run, and each
\* row of the returned matrix sums to at most PI.
C5_RowSumAtMostPi ==
    /\ \A i \in Sensors : \A b \in Bins : spectrum[i][b] >= 0
    /\ main_pc = "done" => \A i \in Sensors : RowSum(ret[i]) <= PI

\* C5 as amended: every spectrum bin is >= 0 at every point of a run, and each
\* row of the spectrum and of the returned matrix sums to at most
\* PI * 1.5^max_depth.
C5_RowSumBound ==
    \A i \in Sensors :
       /\ \A b \in Bins : spectrum[i][b] >= 0 /\ ret[i][b] >= 0
       /\ RowSum(spectrum[i]) * Pow(2, factory.max_depth) <= PI * Pow(3, factory.max_depth)
       /\ RowSum(ret[i]) * Pow(2, factory.max_depth) <= PI * Pow(3, factory.max_depth)

C5_Witness ==
    /\ main_pc = "done"
    /\ \E i \in Sensors : RowSum(ret[i]) > PI

\* C6: a bin of a spectrum is read and written only by a thread that holds that
\* sensor's spectrum mutex, no deposit is lost under any interleaving (the
\* spectrum is the bin-wise sum of the deposits), and a trace of sensor i
\* writes no other sensor's spectrum.
C6_NoLostDeposit ==
    /\ [](/\ \A t \in Threads :
                (Tracing(t) /\ Top(t).pc = "add") => spectrum_lock[tsensor[t]] = t
          /\ \A i \in Sensors : \A b \in Bins :
                /\ spectrum_lock[i] \in {FREE, MAIN} => spectrum[i][b] = deposited[i][b]
                /\ spectrum[i][b] <= deposited[i][b])
    /\ [][\A i \in Sensors :
             spectrum'[i] # spectrum[i] =>
                \E t \in Threads :
                   /\ Tracing(t) /\ Steps(t)
                   /\ tsensor[t] = i
                   /\ spectrum_lock[i] = t
                   /\ spectrum'[i][dir_to_bin(Top(t).direction)]
                         = spectrum[i][dir_to_bin(Top(t).direction)]
                           + (Top(t).current_value \div Top(t).denom_samples)]_vars

C6_Witness ==
    \E t \in Threads, u \in Threads :
       /\ t # u
       /\ Tracing(t) /\ Tracing(u)
       /\ tsensor[t] = tsensor[u]
       /\ Top(t).pc = "add" /\ Top(u).pc = "miss"
       /\ dir_to_bin(Top(t).direction) = dir_to_bin(Top(u).direction)
       /\ spectrum[tsensor[t]][dir_to_bin(Top(t).direction)] > 0

\* C7: a hit on a NonApplicable side or on a material that emits direct light
\* ends the branch with the spectrum unchanged and no recursive call; no frame
\* that hit a surface writes the spectrum: only a missed ray does.
C7_OnlyMissWrites ==
    /\ [](\A t \in Threads : \A k \in 1 .. Len(stack[t]) :
             (stack[t][k].material # 0 /\ Materials[stack[t][k].material].emits) =>
                stack[t][k].pc = "emissive" /\ k = Len(stack[t]))
    /\ [][/\ \A t \in Threads :
                (Tracing(t) /\ Top(t).pc \in {"nonapplicable", "emissive"} /\ Steps(t)) =>
                   Returned(t) /\ spectrum' = spectrum
          /\ spectrum' # spectrum =>
                \E t \in Threads :
                   /\ Tracing(t) /\ Steps(t)
                   /\ Top(t).pc = "add"
                   /\ Top(t).material = 0
                   /\ Top(t).direction \in Directions]_vars

C7_Witness ==
    \E t \in Threads, u \in Threads :
       /\ Tracing(t) /\ Tracing(u)
       /\ Top(t).pc = "emissive" /\ Top(u).pc = "nonapplicable"
       /\ Len(stack[t]) = 2

\* C8: at a hit with branch count n, a sub-sample whose new_value is not below
\* limit_weight makes one call with current_depth + 1, weight new_value =
\* current_value * cos_theta * reflectance * 1.5 and denominator denom_samples * n;
\* the denominator of every call is n_ambient_samples times the product of the
\* branch counts of the hits above it.
C8_Branching ==
    /\ [](\A t \in Threads : \A k \in 1 .. Len(stack[t]) :
             stack[t][k].denom_samples
                = factory.n_ambient_samples * BranchProduct(stack[t], k - 1))
    /\ [][\A t \in Threads :
             (Tracing(t) /\ Top(t).pc = "loop" /\ Top(t).i < Top(t).n /\ Steps(t)) =>
                LET f == Top(t)
                    g == stack'[t][Len(stack[t])]
                IN  /\ \E cos_theta \in CosThetas :
                          g.new_value =
                             ((((((f.current_value * cos_theta) \div Scale)
                                   * Materials[f.material].red) \div Scale) * 3) \div 2)
                    /\ ~ Below(g.new_value) =>
                          stack'[t] = Append(SubSeq(stack[t], 1, Len(stack[t]) - 1)
                                                \o << [f EXCEPT !.pc = "call",
                                                                !.new_value = g.new_value] >>,
                                             CallFrame(f, g.new_value))
                    /\ Below(g.new_value) => Len(stack'[t]) = Len(stack[t])]_vars

C8_Witness ==
    \E t \in Threads :
       /\ Tracing(t)
       /\ Len(stack[t]) = 2
       /\ Top(t).pc = "add"
       /\ stack[t][1].n > 1
       /\ Top(t).denom_samples = NAmbientSamples * stack[t][1].n

\* C9: at every hit on a non-emissive surface the number of sub-samples is
\* n = max(1, round(sqrt(n_ambient_samples * wt))) with
\* wt = min(current_value, 0.8 * current_value^2 / (n_ambient_samples * limit_weight)),
\* and the loop makes exactly n passes.
C9_BranchCountRounded ==
    \A t \in Threads : \A k \in 1 .. Len(stack[t]) :
       LET f == stack[t][k]
           wt == IF factory.limit_weight > 0
                 THEN Min(f.current_value,
                          LimitD(f.current_value, factory.n_ambient_samples,
                                 factory.limit_weight))
                 ELSE f.current_value
       IN  f.pc \in {"loop", "roulette", "call"} =>
              /\ f.n = Max(1, RoundSqrtPlusHalves(factory.n_ambient_samples * wt, 0))
              /\ f.i <= f.n

\* C10: every run of calc_dc returns: a thread nests at most max_depth + 2
\* trace_ray calls, holds the spectrum mutex only for the bin update of a miss,
\* never across a call and never together with the counter mutex.
LockDiscipline ==
    /\ \A t \in Threads : Len(stack[t]) <= factory.max_depth + 2
    /\ \A i \in Sensors :
          /\ spectrum_lock[i] \in Threads =>
                /\ Tracing(spectrum_lock[i])
                /\ tsensor[spectrum_lock[i]] = i
                /\ Top(spectrum_lock[i]).pc = "add"
                /\ counter_lock[i] # spectrum_lock[i]
          /\ counter_lock[i] \in Threads =>
                /\ tpc[counter_lock[i]] = "report"
                /\ tsensor[counter_lock[i]] = i
          /\ spectrum_lock[i] = MAIN => main_pc = "set" /\ row = i
    /\ \A t \in Threads :
          Cardinality({i \in Sensors : spectrum_lock[i] = t})
             + Cardinality({i \in Sensors : counter_lock[i] = t}) <= 1

C10_Termination == <>(main_pc = "done") /\ []LockDiscipline

C10_Witness ==
    /\ main_pc = "done"
    /\ \E i \in Sensors : RowSum(ret[i]) > 0
    /\ factory.max_depth = MaxDepthBound

====
